---- MODULE Spec2Model ----
(***************************************************************************)
(* A model of the funtastic library: the Optional, Result and Effect       *)
(* containers, the `is` type predicate, the curry, compose and match        *)
(* combinators, memoize and List.partition.  Every run of the model         *)
(* exercises one of these parts: `prog` is chosen in Init and says which.   *)
(***************************************************************************)
EXTENDS Integers, Sequences, FiniteSets, TLC

VARIABLES
  prog,      \* the part of the library this run exercises
  optional,  \* Optional: the held value x of the current Optional
  optOp,     \* Optional: the last operation, its receiver, argument, calls made
  optLen,    \* Optional: number of chained operations so far
  optHeap,   \* Optional: what every instance constructed holds, and the current one
  result,    \* Result: the held value x of the current Result
  resOp,     \* Result: the last operation, its receiver, argument, calls made
  resLen,    \* Result: number of chained operations so far
  resHeap,   \* Result: what every instance constructed holds, and the current one
  effect,    \* Effect: the instances, each a base callable + registered maps
  effLog,    \* Effect: the invocations made by Effect.of and map
  effCalls,  \* Effect: the calls of `call`, their invocations and progress
  curried,   \* curry: arity, accumulated arguments and state of the chain
  curLog,    \* curry: invocations of the original function
  comp,      \* compose: the composed functions, input and outcome
  mat,       \* match: the matcher mapping, the value and the outcome
  isCall,    \* is: the tag, the value and the outcome
  law,       \* map law: a container, two functions and both ways of mapping
  memoized,  \* memoize: the cache, the invocations of fn and the calls made
  part       \* List.partition: the function, the array and the partitions

vars == <<prog, optional, optOp, optLen, optHeap, result, resOp, resLen, resHeap,
          effect, effLog, effCalls, curried, curLog, comp, mat, isCall,
          law, memoized, part>>

optVars == <<optional, optOp, optLen, optHeap>>
resVars == <<result, resOp, resLen, resHeap>>
effVars == <<effect, effLog, effCalls>>
curVars == <<curried, curLog>>
extVars == <<law, memoized, part>>

-----------------------------------------------------------------------------
(* Bounds of the model.                                                     *)

MaxChain == 2      \* longest chain of container operations
MaxMaps == 2       \* most transformations registered on one Effect
MaxCalls == 2      \* most calls of one Effect
MaxEffects == 3    \* most Effect instances derived from one base callable
MaxArity == 3      \* largest declared arity of a curried function
MaxExtra == 1      \* most arguments supplied beyond the arity
MaxFns == 3        \* most functions given to compose
MaxPartials == 2   \* most partial applications kept alive at once
MaxSteps == 3      \* most invocations in one curry run
MaxKeys == 3       \* most keys in a matcher mapping
MaxMemoCalls == 3  \* most calls of a memoized function
MaxXs == 3         \* longest array given to List.partition

-----------------------------------------------------------------------------
(* JavaScript values.  A value is a record whose field k is its kind.       *)

Undefined == [k |-> "undefined"]
Null == [k |-> "null"]
NaN == [k |-> "nan"]
Sym == [k |-> "symbol"]
Bare == [k |-> "bare"]            \* Object.create(null): no constructor
Num(n) == [k |-> "number", v |-> n]
BigI(n) == [k |-> "bigint", v |-> n]
Str(s) == [k |-> "string", v |-> s]
Bool(b) == [k |-> "boolean", v |-> b]
Arr(s) == [k |-> "array", v |-> s]
Obj(ps) == [k |-> "object", v |-> ps]   \* own properties, <<key, value>> in order
Fn(id) == [k |-> "function", v |-> id]
Err(id) == [k |-> "error", v |-> id]    \* an instance of Error
Opt(x) == [k |-> "optional", v |-> x]   \* an Optional instance
Res(x) == [k |-> "result", v |-> x]     \* a Result instance
Prom(id) == [k |-> "promise", v |-> id] \* a Promise instance
Throw(e) == [k |-> "throw", v |-> e]    \* abrupt completion, not a value

Threw(r) == r.k = "throw"

\* typeof x
TypeOf(x) ==
  CASE x.k = "undefined" -> "undefined"
    [] x.k \in {"number", "nan"} -> "number"
    [] x.k \in {"bigint", "string", "boolean", "symbol", "function"} -> x.k
    [] OTHER -> "object"

\* ToBoolean(x)
Truthy(x) ==
  CASE x.k \in {"undefined", "null", "nan"} -> FALSE
    [] x.k \in {"number", "bigint"} -> x.v # 0
    [] x.k = "string" -> x.v # ""
    [] x.k = "boolean" -> x.v
    [] OTHER -> TRUE

\* x.constructor.name for a truthy x; Object.create(null) has no constructor
CtorName(x) ==
  CASE x.k \in {"number", "nan"} -> Str("Number")
    [] x.k = "bigint" -> Str("BigInt")
    [] x.k = "string" -> Str("String")
    [] x.k = "boolean" -> Str("Boolean")
    [] x.k = "symbol" -> Str("Symbol")
    [] x.k = "function" -> Str("Function")
    [] x.k = "array" -> Str("Array")
    [] x.k = "object" -> Str("Object")
    [] x.k = "error" -> Str("Error")
    [] x.k = "optional" -> Str("Optional")
    [] x.k = "result" -> Str("Result")
    [] x.k = "promise" -> Str("Promise")
    [] OTHER -> Throw("TypeError")

\* The constructors that `is` treats as sentinel tags, and the classes it
\* tests with instanceof.
Sentinels == {"BigInt", "Boolean", "Function", "Number", "Object", "Symbol",
              "String", "Functor", "Array"}
Classes == {"Error", "Promise", "Optional", "Result"}
Ctor(name) == Fn(name)

\* typeof t === 'function' && typeof t.prototype === 'object'
\*   && t.prototype.constructor === t
IsClass(t) == t.k = "function" /\ t.v \in Classes

\* x instanceof t, for a class t
InstanceOf(x, t) ==
  CASE t.v = "Error" -> x.k = "error"
    [] t.v = "Promise" -> x.k = "promise"
    [] t.v = "Optional" -> x.k = "optional"
    [] t.v = "Result" -> x.k = "result"
    [] OTHER -> FALSE

\* 'map' in x && typeof x.map === 'function', for a non-null object x
HasMap(x) == x.k \in {"optional", "result", "array"}

-----------------------------------------------------------------------------
(* is(t, x): the type predicate.                                            *)

\* The inner function fn of is: the switch over the tag t.
IsFn(t, x) ==
  CASE t = Ctor("BigInt") -> Bool(TypeOf(x) = "bigint")
    [] t = Ctor("Boolean") -> Bool(TypeOf(x) = "boolean")
    [] t = Ctor("Function") -> Bool(TypeOf(x) = "function")
    [] t = Ctor("Number") -> Bool(TypeOf(x) = "number")
    [] t = Ctor("Object") -> Bool(TypeOf(x) = "object")
    [] t = Ctor("Symbol") -> Bool(TypeOf(x) = "symbol")
    [] t = Ctor("String") -> Bool(TypeOf(x) = "string")
    [] t = Ctor("Functor") ->
         IF TypeOf(x) # "object" THEN Bool(FALSE)
         ELSE IF x.k = "null" THEN Throw("TypeError")   \* 'map' in null
         ELSE Bool(HasMap(x))
    [] t = Ctor("Array") -> Bool(x.k = "array")
    [] t = Undefined -> Bool(TypeOf(x) = "undefined")
    [] t = Null -> Bool(x.k = "null")
    [] OTHER -> IF IsClass(t) THEN Bool(InstanceOf(x, t))
                ELSE Bool(TypeOf(x) = TypeOf(t))

\* is(t, x) called with two arguments: an undefined x is taken as omitted
\* and the inner function itself is returned.
Is(t, x) == IF TypeOf(x) = "undefined" THEN Fn("is.fn") ELSE IsFn(t, x)

\* is(t) called with the tag only
Is1(t) == Fn("is.fn")

-----------------------------------------------------------------------------
(* The JavaScript operators the containers use.                             *)

Digits == <<"0", "1", "2", "3", "4", "5", "6", "7", "8", "9">>

RECURSIVE IntStr(_)
\* Number.prototype.toString for an integer
IntStr(n) ==
  IF n < 0 THEN "-" \o IntStr(0 - n)
  ELSE IF n < 10 THEN Digits[n + 1]
  ELSE IntStr(n \div 10) \o Digits[(n % 10) + 1]

IsPrimitive(x) ==
  x.k \in {"undefined", "null", "nan", "number", "bigint", "string", "boolean", "symbol"}

RECURSIVE ToStr(_)
\* ToString(ToPrimitive(x)): the text of x, or a TypeError
ToStr(x) ==
  CASE x.k = "undefined" -> Str("undefined")
    [] x.k = "null" -> Str("null")
    [] x.k = "nan" -> Str("NaN")
    [] x.k \in {"number", "bigint"} -> Str(IntStr(x.v))
    [] x.k = "string" -> x
    [] x.k = "boolean" -> Str(IF x.v THEN "true" ELSE "false")
    [] x.k = "array" ->
         IF x.v = <<>> THEN Str("")
         ELSE LET h == IF Head(x.v).k \in {"undefined", "null"} THEN Str("")
                       ELSE ToStr(Head(x.v))
                  t == ToStr(Arr(Tail(x.v)))
              IN IF Threw(h) THEN h
                 ELSE IF Threw(t) THEN t
                 ELSE IF Len(x.v) = 1 THEN h
                 ELSE Str(h.v \o "," \o t.v)
    [] x.k = "error" -> Str("Error: " \o x.v)
    [] x.k = "function" -> Str("function " \o x.v)
    [] x.k \in {"symbol", "bare"} -> Throw("TypeError")
    [] OTHER -> Str("[object Object]")

\* ToNumber of a primitive that is neither string, symbol nor bigint
ToNum(x) ==
  CASE x.k = "number" -> x
    [] x.k = "null" -> Num(0)
    [] x.k = "boolean" -> Num(IF x.v THEN 1 ELSE 0)
    [] OTHER -> NaN

\* a + b
JsAdd(a, b) ==
  IF a.k = "bare" \/ b.k = "bare" THEN Throw("TypeError")
  ELSE IF a.k = "string" \/ b.k = "string" \/ ~IsPrimitive(a) \/ ~IsPrimitive(b)
    THEN LET sa == ToStr(a)
             sb == ToStr(b)
         IN IF Threw(sa) THEN sa ELSE IF Threw(sb) THEN sb ELSE Str(sa.v \o sb.v)
  ELSE IF a.k = "symbol" \/ b.k = "symbol" THEN Throw("TypeError")
  ELSE IF a.k = "bigint" /\ b.k = "bigint" THEN BigI(a.v + b.v)
  ELSE IF a.k = "bigint" \/ b.k = "bigint" THEN Throw("TypeError")
  ELSE LET na == ToNum(a)
           nb == ToNum(b)
       IN IF na.k = "nan" \/ nb.k = "nan" THEN NaN ELSE Num(na.v + nb.v)

\* a && b
JsAnd(a, b) == IF Truthy(a) THEN b ELSE a

Chars(s) == [i \in 1..Len(s) |-> Str(SubSeq(s, i, i))]

\* whether [...x] can spread x, and the elements it spreads
IsIterable(x) == x.k \in {"array", "string"}
SpreadElems(x) == IF x.k = "array" THEN x.v ELSE Chars(x.v)

\* [...a, ...b]
JsSpreadArrays(a, b) ==
  IF ~IsIterable(a) \/ ~IsIterable(b) THEN Throw("TypeError")
  ELSE Arr(SpreadElems(a) \o SpreadElems(b))

\* the own enumerable properties that {...x} copies
OwnProps(x) ==
  CASE x.k = "object" -> x.v
    [] x.k = "array" -> [i \in 1..Len(x.v) |-> <<IntStr(i - 1), x.v[i]>>]
    [] x.k = "string" -> [i \in 1..Len(x.v) |-> <<IntStr(i - 1), Chars(x.v)[i]>>]
    [] OTHER -> <<>>

HasKey(ps, key) == \E i \in 1..Len(ps) : ps[i][1] = key

RECURSIVE Assign(_, _)
\* Object.assign semantics on property lists: a key of qs overrides the same
\* key of ps in place, a new key is appended
Assign(ps, qs) ==
  IF qs = <<>> THEN ps
  ELSE LET q == Head(qs)
           ps1 == IF HasKey(ps, q[1])
                  THEN [i \in 1..Len(ps) |-> IF ps[i][1] = q[1] THEN q ELSE ps[i]]
                  ELSE Append(ps, q)
       IN Assign(ps1, Tail(qs))

\* {...a, ...b}
JsSpreadObjects(a, b) == Obj(Assign(Assign(<<>>, OwnProps(a)), OwnProps(b)))

-----------------------------------------------------------------------------
(* The functions that callers supply to the containers.                     *)

MapFns == {"identity", "constOne", "toUndefined", "toNull", "wrap"}
OptBindFns == {"ofSame", "ofNone", "ofOne"}
ResBindFns == {"okSame", "okOne", "fail"}
EffFns == {"tagA", "tagB", "toUndefined"}
ResMapFns == MapFns \cup {"toError"}

\* x => g(f(x)), the function a caller writes to fuse two maps into one
Fused(g, f) == g \o " after " \o f
IsFused(h) == \E g \in ResMapFns, f \in ResMapFns : h = Fused(g, f)
Outer(h) == CHOOSE g \in ResMapFns : \E f \in ResMapFns : h = Fused(g, f)
Inner(h) == CHOOSE f \in ResMapFns : h = Fused(Outer(h), f)

RECURSIVE Call(_, _)
\* f(x) for a supplied function f
Call(f, x) ==
  CASE f = "identity" -> x
    [] f = "constOne" -> Num(1)
    [] f = "toUndefined" -> Undefined
    [] f = "toNull" -> Null
    [] f = "wrap" -> Arr(<<x>>)
    [] f = "ofSame" -> Opt(IF x.k \in {"undefined", "null"} THEN Undefined ELSE x)
    [] f = "ofNone" -> Opt(Undefined)
    [] f = "ofOne" -> Opt(Num(1))
    [] f = "okSame" -> Res(x)
    [] f = "okOne" -> Res(Num(1))
    [] f = "fail" -> Res(Err("e2"))
    [] f = "tagA" -> Arr(<<Str("A"), x>>)
    [] f = "tagB" -> Arr(<<Str("B"), x>>)
    [] f = "toError" -> Err("e4")
    [] IsFused(f) -> Call(Outer(f), Call(Inner(f), x))
    [] OTHER -> Undefined

-----------------------------------------------------------------------------
(* Optional.  An Optional is modelled by its held value x; an operation     *)
(* yields the held value of the Optional it returns and the calls it made.  *)

\* is(undefined, x) || is(null, x)
IsAbsent(x) == Truthy(Is(Undefined, x)) \/ Truthy(Is(Null, x))

\* Optional_of testing the falsiness of x where the code tests for
\* undefined and null
Optional_of_Falsy(x) == IF ~Truthy(x) THEN Undefined ELSE x

Optional_of(x) == IF IsAbsent(x) THEN Undefined ELSE x

\* Optional_map testing the falsiness of y where the code tests for
\* undefined and null
Optional_map_Falsy(self, fn) ==
  LET y == Call(fn, self)
  IN [x |-> IF ~Truthy(y) THEN Undefined ELSE y,
      calls |-> << <<fn, self>> >>]

Optional_map(self, fn) ==
  LET y == Call(fn, self)
  IN [x |-> IF IsAbsent(y) THEN Undefined ELSE y,
      calls |-> << <<fn, self>> >>]

Optional_apply(self, fnx) ==
  IF IsAbsent(fnx) THEN [x |-> Undefined, calls |-> <<>>]
  ELSE Optional_map(self, fnx.v)

Optional_bind(self, fn) ==
  LET y == Call(fn, self).v
  IN [x |-> IF IsAbsent(y) THEN Undefined ELSE y,
      calls |-> << <<fn, self>> >>]

\* Optional_concat merging the objects in the wrong order
Optional_concat_SelfWins(self, x) ==
  [x |-> IF IsAbsent(self) THEN x
         ELSE IF Truthy(Is(Ctor("BigInt"), x)) THEN JsAdd(self, x)
         ELSE IF Truthy(Is(Ctor("Number"), x)) THEN JsAdd(self, x)
         ELSE IF Truthy(Is(Ctor("String"), x)) THEN JsAdd(self, x)
         ELSE IF Truthy(Is(Ctor("Boolean"), x)) THEN JsAnd(self, x)
         ELSE IF Truthy(Is(Ctor("Array"), x)) THEN JsSpreadArrays(self, x)
         ELSE IF Truthy(Is(Ctor("Object"), x)) \/ Truthy(Is1(Ctor("Function")))
           THEN JsSpreadObjects(x, self)
         ELSE x,
   calls |-> <<>>]

Optional_concat(self, x) ==
  [x |-> IF IsAbsent(self) THEN x
         ELSE IF Truthy(Is(Ctor("BigInt"), x)) THEN JsAdd(self, x)
         ELSE IF Truthy(Is(Ctor("Number"), x)) THEN JsAdd(self, x)
         ELSE IF Truthy(Is(Ctor("String"), x)) THEN JsAdd(self, x)
         ELSE IF Truthy(Is(Ctor("Boolean"), x)) THEN JsAnd(self, x)
         ELSE IF Truthy(Is(Ctor("Array"), x)) THEN JsSpreadArrays(self, x)
         ELSE IF Truthy(Is(Ctor("Object"), x)) \/ Truthy(Is1(Ctor("Function")))
           THEN JsSpreadObjects(self, x)
         ELSE x,
   calls |-> <<>>]

\* Optional_match testing for undefined only
Optional_match_UndefinedOnly(self) ==
  IF Truthy(Is(Undefined, self)) THEN <<"None">> ELSE <<"Some", self>>

\* match({Some, None}): the branch invoked and its argument
Optional_match(self) ==
  IF IsAbsent(self) THEN <<"None">> ELSE <<"Some", self>>

-----------------------------------------------------------------------------
(* Result.  A Result is modelled by its held value x.                       *)

Result_of(x) == IF Truthy(Is(Ctor("Error"), x)) THEN x ELSE x

\* Result_map without the test for the error state
Result_map_NoShortCircuit(self, fn) ==
  [x |-> Result_of(Call(fn, self)), calls |-> << <<fn, self>> >>, this |-> FALSE]

Result_map(self, fn) ==
  IF Truthy(Is(Ctor("Error"), self)) THEN [x |-> self, calls |-> <<>>, this |-> TRUE]
  ELSE [x |-> Result_of(Call(fn, self)), calls |-> << <<fn, self>> >>, this |-> FALSE]

Result_apply(self, fnx) ==
  IF Truthy(Is(Ctor("Error"), fnx)) THEN [x |-> self, calls |-> <<>>, this |-> TRUE]
  ELSE Result_map(self, fnx.v)

Result_bind(self, fn) ==
  IF Truthy(Is(Ctor("Error"), self)) THEN [x |-> self, calls |-> <<>>, this |-> TRUE]
  ELSE [x |-> Call(fn, self).v, calls |-> << <<fn, self>> >>, this |-> FALSE]

Result_concat(self, x) ==
  [x |-> IF IsAbsent(self) THEN x
         ELSE IF Truthy(Is(Ctor("BigInt"), x)) THEN JsAdd(self, x)
         ELSE IF Truthy(Is(Ctor("Number"), x)) THEN JsAdd(self, x)
         ELSE IF Truthy(Is(Ctor("String"), x)) THEN JsAdd(self, x)
         ELSE IF Truthy(Is(Ctor("Boolean"), x)) THEN JsAnd(self, x)
         ELSE IF Truthy(Is(Ctor("Array"), x)) THEN JsSpreadArrays(self, x)
         ELSE IF Truthy(Is(Ctor("Object"), x)) \/ Truthy(Is1(Ctor("Function")))
           THEN JsSpreadObjects(self, x)
         ELSE x,
   calls |-> <<>>, this |-> FALSE]

\* match({Success, Error}): the branch invoked and its argument
Result_match(self) ==
  IF Truthy(Is(Ctor("Error"), self)) THEN <<"Error", self>> ELSE <<"Success", self>>

-----------------------------------------------------------------------------
(* The container programs: a container is constructed with `of` and then    *)
(* operations are chained on the container the previous one returned.       *)

Nothing == [k |-> "nothing"]
NoOp == [op |-> "none", recv |-> Nothing, arg |-> Nothing, calls |-> <<>>,
         ret |-> Nothing]

OptInitVals == {Undefined, Null, Num(0), Num(42), BigI(42), Str("foo"),
                Bool(TRUE), Bool(FALSE), Arr(<<Num(1), Num(2)>>),
                Obj(<< <<"foo", Str("bar")>>, <<"bar", Str("")>> >>)}
ConcatArgs == {Num(1), BigI(1), Str("bar"), Bool(TRUE), Bool(FALSE),
               Arr(<<Num(4)>>), Obj(<< <<"bar", Str("baz")>> >>),
               Undefined, Null, Sym, Fn("identity")}
ResInitVals == OptInitVals \cup {Err("e1")}

\* The step a container operation takes: r is what the operation yields.  An
\* operation that throws leaves the caller with the container it had.
NoHeap == [objs |-> <<>>, cur |-> 0]

\* The instances after an operation: a container passed as argument was
\* constructed by the caller; made says whether the operation returns a new
\* instance, holding x, which becomes the current one.
Allocate(heap, arg, made, x) ==
  LET objs == IF arg.k \in {"optional", "result"} THEN Append(heap.objs, arg.v)
              ELSE heap.objs
  IN IF made THEN [objs |-> Append(objs, x), cur |-> Len(objs) + 1]
     ELSE [objs |-> objs, cur |-> heap.cur]

\* OptStep storing the result in the receiver instead of a new instance
OptStep_InPlace(op, arg, r, ret) ==
  /\ optional' = IF Threw(r.x) THEN optional ELSE r.x
  /\ optOp' = [op |-> op, recv |-> optional, arg |-> arg, calls |-> r.calls,
               ret |-> IF Threw(r.x) THEN r.x ELSE ret]
  /\ optLen' = optLen + 1
  /\ optHeap' = IF Threw(r.x) THEN optHeap
                ELSE [optHeap EXCEPT !.objs[optHeap.cur] = r.x]
  /\ UNCHANGED <<prog, resVars, effVars, curVars, comp, mat, isCall, extVars>>

OptStep(op, arg, r, ret) ==
  /\ optional' = IF Threw(r.x) THEN optional ELSE r.x
  /\ optHeap' = Allocate(optHeap, arg, ~Threw(r.x) /\ op # "match", r.x)
  /\ optOp' = [op |-> op, recv |-> optional, arg |-> arg, calls |-> r.calls,
               ret |-> IF Threw(r.x) THEN r.x ELSE ret]
  /\ optLen' = optLen + 1
  /\ UNCHANGED <<prog, resVars, effVars, curVars, comp, mat, isCall, extVars>>

OptionalOf ==
  /\ prog = "Optional" /\ optional = Nothing
  /\ \E v \in OptInitVals :
       /\ optional' = Optional_of(v)
       /\ optHeap' = Allocate(optHeap, Nothing, TRUE, Optional_of(v))
       /\ optOp' = [NoOp EXCEPT !.op = "of", !.arg = v]
       /\ UNCHANGED <<prog, optLen, resVars, effVars, curVars, comp, mat, isCall, extVars>>

OptionalMap ==
  /\ prog = "Optional" /\ optional # Nothing /\ optLen < MaxChain
  /\ \E f \in MapFns : OptStep("map", Fn(f), Optional_map(optional, f), Nothing)

OptionalApply ==
  /\ prog = "Optional" /\ optional # Nothing /\ optLen < MaxChain
  /\ \E fx \in {Fn(f) : f \in MapFns} \cup {Undefined} :
       OptStep("apply", Opt(Optional_of(fx)),
               Optional_apply(optional, Optional_of(fx)), Nothing)

OptionalBind ==
  /\ prog = "Optional" /\ optional # Nothing /\ optLen < MaxChain
  /\ \E f \in OptBindFns : OptStep("bind", Fn(f), Optional_bind(optional, f), Nothing)

OptionalConcat ==
  /\ prog = "Optional" /\ optional # Nothing /\ optLen < MaxChain
  /\ \E x \in ConcatArgs : OptStep("concat", x, Optional_concat(optional, x), Nothing)

\* match with Some = identity and None = () => 'none'
OptionalMatch ==
  /\ prog = "Optional" /\ optional # Nothing /\ optLen < MaxChain
  /\ LET b == Optional_match(optional)
     IN OptStep("match", Nothing, [x |-> optional, calls |-> <<b>>],
                IF b[1] = "None" THEN Str("none") ELSE b[2])

ResStep(op, arg, r, ret) ==
  /\ result' = IF Threw(r.x) THEN result ELSE r.x
  /\ resHeap' = Allocate(resHeap, arg, ~Threw(r.x) /\ op # "match" /\ ~r.this, r.x)
  /\ resOp' = [op |-> op, recv |-> result, arg |-> arg, calls |-> r.calls,
               ret |-> IF Threw(r.x) THEN r.x ELSE ret]
  /\ resLen' = resLen + 1
  /\ UNCHANGED <<prog, optVars, effVars, curVars, comp, mat, isCall, extVars>>

ResultOf ==
  /\ prog = "Result" /\ result = Nothing
  /\ \E v \in ResInitVals :
       /\ result' = Result_of(v)
       /\ resHeap' = Allocate(resHeap, Nothing, TRUE, Result_of(v))
       /\ resOp' = [NoOp EXCEPT !.op = "of", !.arg = v]
       /\ UNCHANGED <<prog, resLen, optVars, effVars, curVars, comp, mat, isCall, extVars>>

ResultMap ==
  /\ prog = "Result" /\ result # Nothing /\ resLen < MaxChain
  /\ \E f \in ResMapFns : ResStep("map", Fn(f), Result_map(result, f), Nothing)

ResultApply ==
  /\ prog = "Result" /\ result # Nothing /\ resLen < MaxChain
  /\ \E fx \in {Fn(f) : f \in ResMapFns} \cup {Err("e3")} :
       ResStep("apply", Res(Result_of(fx)), Result_apply(result, Result_of(fx)), Nothing)

ResultBind ==
  /\ prog = "Result" /\ result # Nothing /\ resLen < MaxChain
  /\ \E f \in ResBindFns : ResStep("bind", Fn(f), Result_bind(result, f), Nothing)

ResultConcat ==
  /\ prog = "Result" /\ result # Nothing /\ resLen < MaxChain
  /\ \E x \in ConcatArgs : ResStep("concat", x, Result_concat(result, x), Nothing)

\* match with Success = identity and Error = e => 'failed'
ResultMatch ==
  /\ prog = "Result" /\ result # Nothing /\ resLen < MaxChain
  /\ LET b == Result_match(result)
     IN ResStep("match", Nothing, [x |-> result, calls |-> <<b>>, this |-> TRUE],
                IF b[1] = "Error" THEN Str("failed") ELSE b[2])

-----------------------------------------------------------------------------
(* Effect.  The held callable of an Effect is the base callable given to    *)
(* Effect.of wrapped in one closure per map: it is modelled by the base and *)
(* the transformations in registration order.                               *)

BaseFns == {"syncBase", "asyncBase", "voidBase"}

\* The arguments of the c-th call: an Effect never inspects them, so every
\* call is given its own.
EffArgs(c) == <<Num(c)>>

\* the value the base callable produces for args, at once or when its
\* deferred result completes
BaseValue(b, args) ==
  IF b = "voidBase" THEN Undefined ELSE Arr(<<Str("base")>> \o args)

\* what the base callable returns
BaseCall(b, args) ==
  IF b = "asyncBase" THEN Prom("pending") ELSE BaseValue(b, args)

Effect_of(fn) == [base |-> fn, maps |-> <<>>]

\* Effect_map running the pipeline at once instead of deferring it to call
Effect_map_Eager(self, fn) ==
  [eff |-> [base |-> self.base, maps |-> Append(self.maps, fn)],
   calls |-> << <<self.base, Arr(<<>>)>>, <<fn, BaseValue(self.base, <<>>)>> >>]

\* map(fn): a new Effect; nothing is invoked
Effect_map(self, fn) ==
  [eff |-> [base |-> self.base, maps |-> Append(self.maps, fn)], calls |-> <<>>]

Front(s) == SubSeq(s, 1, Len(s) - 1)
Last(s) == s[Len(s)]

RECURSIVE Effect_fn(_, _, _)
\* The held callable applied to args: y is what it returns, calls the
\* invocations it makes before returning, chained the transformations it
\* has chained with `then` onto a deferred result.
Effect_fn(b, ms, args) ==
  IF ms = <<>>
  THEN [y |-> BaseCall(b, args), calls |-> << <<b, Arr(args)>> >>, chained |-> <<>>]
  ELSE LET inner == Effect_fn(b, Front(ms), args)
           fn == Last(ms)
           y == inner.y
       IN IF Threw(y) THEN inner
          ELSE IF Truthy(Is(Ctor("Promise"), y))
            THEN IF y.k = "promise"
                 THEN [inner EXCEPT !.chained = Append(@, fn)]
                 ELSE [inner EXCEPT !.y = Throw("TypeError")]  \* undefined.then
          ELSE [inner EXCEPT !.y = Call(fn, y), !.calls = Append(@, <<fn, y>>)]

\* Effect_call passing the held callable the arguments of the first call
Effect_call_Stale(self, args) == Effect_fn(self.base, self.maps, EffArgs(1))

Effect_call(self, args) == Effect_fn(self.base, self.maps, args)

\* `effect` lists the Effect instances constructed so far: the one made by
\* Effect.of and those derived from it, each by a map on any earlier one.
EffectOf ==
  /\ prog = "Effect" /\ effect = <<>>
  /\ \E b \in BaseFns : effect' = <<Effect_of(b)>>
  /\ UNCHANGED <<prog, effLog, effCalls, optVars, resVars, curVars, comp, mat, isCall, extVars>>

\* map on any of the instances; effLog records what of and map invoke
EffectMap ==
  /\ prog = "Effect" /\ effect # <<>> /\ Len(effect) < MaxEffects
  /\ \E e \in 1..Len(effect), f \in EffFns :
       /\ Len(effect[e].maps) < MaxMaps
       /\ LET r == Effect_map(effect[e], f)
          IN /\ effect' = Append(effect, r.eff)
             /\ effLog' = effLog \o r.calls
  /\ UNCHANGED <<prog, effCalls, optVars, resVars, curVars, comp, mat, isCall, extVars>>

\* call(...args) on any of the instances: runs the held callable up to its
\* return
EffectCall ==
  /\ prog = "Effect" /\ Len(effCalls) < MaxCalls
  /\ \E e \in 1..Len(effect) :
       LET args == EffArgs(Len(effCalls) + 1)
           r == Effect_call(effect[e], args)
       IN effCalls' = Append(effCalls,
               [eff |-> e, args |-> args, ret |-> r.y, log |-> r.calls,
                todo |-> r.chained, val |-> Nothing,
                status |-> IF Threw(r.y) THEN "threw"
                           ELSE IF r.y.k = "promise" THEN "pending"
                           ELSE "returned"])
  /\ UNCHANGED <<prog, effect, effLog, optVars, resVars, curVars, comp, mat, isCall, extVars>>

\* the deferred result of the base callable of call c completes
EffectResolve ==
  /\ prog = "Effect"
  /\ \E c \in 1..Len(effCalls) :
       /\ effCalls[c].status = "pending"
       /\ effCalls' = [effCalls EXCEPT ![c].val =
                          BaseValue(effect[effCalls[c].eff].base, effCalls[c].args),
                        ![c].status = IF effCalls[c].todo = <<>> THEN "settled"
                                      ELSE "resolved"]
  /\ UNCHANGED <<prog, effect, effLog, optVars, resVars, curVars, comp, mat, isCall, extVars>>

\* the next transformation chained with `then` in call c runs
EffectThen ==
  /\ prog = "Effect"
  /\ \E c \in 1..Len(effCalls) :
       /\ effCalls[c].status = "resolved"
       /\ LET fn == Head(effCalls[c].todo)
              x == effCalls[c].val
          IN effCalls' = [effCalls EXCEPT ![c].val = Call(fn, x),
                            ![c].log = Append(@, <<fn, x>>),
                            ![c].todo = Tail(@),
                            ![c].status = IF Len(effCalls[c].todo) = 1
                                          THEN "settled" ELSE "resolved"]
  /\ UNCHANGED <<prog, effect, effLog, optVars, resVars, curVars, comp, mat, isCall, extVars>>

-----------------------------------------------------------------------------
(* curry.  curry(fn) returns `curried`; a call of `curried` with fewer      *)
(* arguments than fn.length returns an arrow function that remembers the    *)
(* arguments and the receiver.  A partial application is modelled by what   *)
(* its closure captured: args and this.  steps is history: the argument     *)
(* lists that were supplied along the chain leading to it, recv the        *)
(* receiver of the invocation of `curried` that started the chain; n counts *)
(* the invocations made and supplied the arguments given in the run.        *)

Receivers == {Undefined, Obj(<< <<"name", Str("ctx")>> >>)}

\* Curry_curried comparing with > where the code has >=
Curry_curried_Strict(n, this, args) ==
  IF Len(args) > n
  THEN [invoke |-> TRUE, this |-> this, args |-> args]
  ELSE [invoke |-> FALSE, this |-> this, args |-> args]

\* the body of `curried`, for a function of arity n
Curry_curried(n, this, args) ==
  IF Len(args) >= n
  THEN [invoke |-> TRUE, this |-> this, args |-> args]
  ELSE [invoke |-> FALSE, this |-> this, args |-> args]

\* Curry_next calling curried without the receiver the closure captured
Curry_next_Unbound(n, p, next) ==
  LET r == Curry_curried(n, Undefined, p.args \o next)
  IN [invoke |-> r.invoke, this |-> r.this, args |-> r.args, captured |-> p.args]

\* Curry_next pushing next onto the captured array instead of copying it
Curry_next_Push(n, p, next) ==
  LET r == Curry_curried(n, p.this, p.args \o next)
  IN [invoke |-> r.invoke, this |-> r.this, args |-> r.args,
      captured |-> p.args \o next]

\* the arrow function (...next) => curried.apply(this, [...args, ...next]);
\* captured is the array args of the closure after the call: the spread
\* copies it
Curry_next(n, p, next) ==
  LET r == Curry_curried(n, p.this, p.args \o next)
  IN [invoke |-> r.invoke, this |-> r.this, args |-> r.args, captured |-> p.args]

\* The argument lists a caller supplies: curry never inspects an argument, so
\* the arguments are numbered in the order supplied during the run, which
\* makes every one of them distinct.  At most n arguments in one list.
ArgLists(n) == {[i \in 1..k |-> Num(curried.supplied + i)] : k \in 0..n}

\* the step that follows an invocation whose outcome is r; recv is the
\* receiver of the invocation of `curried` that started the chain, partials
\* the partial applications as the invocation left them
CurryStep(r, steps, recv, partials) ==
  /\ IF r.invoke
     THEN /\ curLog' = Append(curLog, [this |-> r.this, args |-> r.args])
          /\ curried' = [curried EXCEPT !.n = @ + 1,
                           !.supplied = @ + Len(Last(steps)),
                           !.partials = partials,
                           !.last = [invoked |-> TRUE, steps |-> steps,
                                     recv |-> recv]]
     ELSE /\ Len(partials) < MaxPartials
          /\ curLog' = curLog
          /\ curried' = [curried EXCEPT !.n = @ + 1,
                           !.supplied = @ + Len(Last(steps)),
                           !.partials = Append(partials,
                                          [args |-> r.args, this |-> r.this,
                                           steps |-> steps, recv |-> recv]),
                           !.last = [invoked |-> FALSE, steps |-> steps,
                                     recv |-> recv]]
  /\ UNCHANGED <<prog, optVars, resVars, effVars, comp, mat, isCall, extVars>>

\* curry(fn) for a function fn with fn.length = n
Curry ==
  /\ prog = "curry" /\ curried = Nothing
  /\ \E n \in 0..MaxArity :
       curried' = [arity |-> n, partials |-> <<>>, last |-> Nothing, n |-> 0,
                   supplied |-> 0]
  /\ UNCHANGED <<prog, curLog, optVars, resVars, effVars, comp, mat, isCall, extVars>>

\* the curried function itself is invoked, on some receiver
CurriedCall ==
  /\ prog = "curry" /\ curried # Nothing /\ curried.n < MaxSteps
  /\ \E this \in Receivers, args \in ArgLists(curried.arity + MaxExtra) :
       CurryStep(Curry_curried(curried.arity, this, args), <<args>>, this,
                 curried.partials)

\* a partial application is invoked; an arrow function ignores its receiver
PartialCall ==
  /\ prog = "curry" /\ curried # Nothing /\ curried.n < MaxSteps
  /\ \E i \in 1..Len(curried.partials) :
       \E next \in ArgLists(curried.arity + MaxExtra - Len(curried.partials[i].args)) :
         LET r == Curry_next(curried.arity, curried.partials[i], next)
         IN CurryStep(r, Append(curried.partials[i].steps, next),
                      curried.partials[i].recv,
                      [curried.partials EXCEPT ![i].args = r.captured])

-----------------------------------------------------------------------------
(* compose.                                                                 *)

ComposeFns == {"tagA", "tagB", "toUndefined"}
ComposeInits == {Num(5), Str("x"), Null}

RECURSIVE ReduceRight(_, _, _)
\* fns.reduceRight((memo, fn) => fn.call(null, memo), init), with the calls made
ReduceRight(fns, memo, calls) ==
  IF fns = <<>> THEN [ret |-> memo, calls |-> calls]
  ELSE ReduceRight(Front(fns), Call(Last(fns), memo),
                   Append(calls, <<Last(fns), memo>>))

Reverse(s) == [i \in 1..Len(s) |-> s[Len(s) + 1 - i]]

\* ComposeApply reducing from the left where the code reduces from the right
ComposeApply_Left(fns, init) == ReduceRight(Reverse(fns), init, <<>>)

\* compose(...fns)(init)
ComposeApply(fns, init) == ReduceRight(fns, init, <<>>)

Compose ==
  /\ prog = "compose" /\ comp = Nothing
  /\ \E k \in 1..MaxFns : \E fns \in [1..k -> ComposeFns] :
       comp' = [fns |-> fns, called |-> FALSE, init |-> Nothing, ret |-> Nothing,
                calls |-> <<>>]
  /\ UNCHANGED <<prog, optVars, resVars, effVars, curVars, mat, isCall, extVars>>

ComposedCall ==
  /\ prog = "compose" /\ comp # Nothing /\ ~comp.called
  /\ \E init \in ComposeInits :
       LET r == ComposeApply(comp.fns, init)
       IN comp' = [comp EXCEPT !.called = TRUE, !.init = init, !.ret = r.ret,
                     !.calls = r.calls]
  /\ UNCHANGED <<prog, optVars, resVars, effVars, curVars, mat, isCall, extVars>>

-----------------------------------------------------------------------------
(* match.  A matcher mapping is its keys in declaration order; its entries  *)
(* are all handlers (functions) or all literals.                            *)

MatchKeys == {"foo", "Number", "Functor", "_"}
MatchVals == {Undefined, Null, Num(0), Num(42), NaN, Str(""), Str("foo"),
              Str("baz"), Bool(FALSE), Bool(TRUE), BigI(42), Arr(<<Num(42)>>),
              Opt(Num(42)), Fn("identity"), Sym, Bare}

\* b[k]: the entry of key k, a handler or a literal
Entry(b, k) == IF b.callable THEN Fn("on " \o k) ELSE Str("is " \o k)

\* x === k, for a key k (keys are strings)
StrictEqKey(x, k) == x.k = "string" /\ x.v = k

\* the condition of the if in the loop over the keys: TRUE, FALSE, or a
\* TypeError thrown by x.constructor.name
KeyMatches(x, k) ==
  IF StrictEqKey(x, k) THEN Bool(TRUE)
  ELSE IF ~Truthy(x) THEN Bool(FALSE)
  ELSE LET name == CtorName(x)
       IN IF Threw(name) THEN name
          ELSE IF name.v = k THEN Bool(TRUE)
          ELSE IF k = "Functor" /\ Truthy(Is(Ctor("Functor"), x)) THEN Bool(TRUE)
          ELSE Bool(k = "_")

RECURSIVE MatchLoop(_, _, _)
\* the loop of the inner function fn of match over the keys that remain
MatchLoop(b, keys, x) ==
  IF keys = <<>> THEN [out |-> Throw("NoMatch"), calls |-> <<>>]
  ELSE LET m == KeyMatches(x, Head(keys))
           e == Entry(b, Head(keys))
       IN IF Threw(m) THEN [out |-> m, calls |-> <<>>]
          ELSE IF m.v
            THEN IF TypeOf(e) = "function"
                 THEN [out |-> Arr(<<Str(e.v), x>>), calls |-> << <<e.v, x>> >>]
                 ELSE [out |-> e, calls |-> <<>>]
          ELSE MatchLoop(b, Tail(keys), x)

Match_fn(b, x) == MatchLoop(b, b.keys, x)

\* match(b, x): an undefined x is taken as omitted and the inner function
\* is returned
Match(b, x) ==
  IF TypeOf(x) = "undefined" THEN [out |-> Fn("match.fn"), calls |-> <<>>]
  ELSE Match_fn(b, x)

Injective(f) == \A i, j \in DOMAIN f : f[i] = f[j] => i = j

MatchCall ==
  /\ prog = "match" /\ mat = Nothing
  /\ \E k \in 0..MaxKeys : \E keys \in [1..k -> MatchKeys] :
       /\ Injective(keys)
       /\ \E callable \in BOOLEAN, x \in MatchVals :
            LET b == [keys |-> keys, callable |-> callable]
                r == Match(b, x)
            IN mat' = [b |-> b, x |-> x, out |-> r.out, calls |-> r.calls]
  /\ UNCHANGED <<prog, optVars, resVars, effVars, curVars, comp, isCall, extVars>>

-----------------------------------------------------------------------------
(* is, called with a tag and a value.                                       *)

IsTags == {Ctor(c) : c \in Sentinels \cup Classes}
            \cup {Undefined, Null, Str("foo"), Num(42), Fn("identity")}
IsVals == MatchVals \cup {Err("e1"), Prom("pending"), Res(Num(1)),
                          Obj(<< <<"foo", Str("bar")>> >>)}

IsCall ==
  /\ prog = "is" /\ isCall = Nothing
  /\ \E t \in IsTags, x \in IsVals : isCall' = [t |-> t, x |-> x, out |-> Is(t, x)]
  /\ UNCHANGED <<prog, optVars, resVars, effVars, curVars, comp, mat, extVars>>

-----------------------------------------------------------------------------
(* The map law: a container c that is present (Optional) or a success      *)
(* (Result) is mapped with f and then with g, and mapped once with the      *)
(* function x => g(f(x)).                                                   *)

OptionalMapLaw ==
  /\ prog = "mapLaw" /\ law = Nothing
  /\ \E v \in OptInitVals, f \in MapFns, g \in MapFns :
       /\ ~IsAbsent(v)
       /\ LET c == Optional_of(v)
              first == Optional_map(c, f)
          IN law' = [kind |-> "Optional", c |-> c, f |-> f, g |-> g,
                     chained |-> Optional_map(first.x, g).x,
                     fused |-> Optional_map(c, Fused(g, f)).x]
  /\ UNCHANGED <<prog, optVars, resVars, effVars, curVars, comp, mat, isCall, memoized, part>>

ResultMapLaw ==
  /\ prog = "mapLaw" /\ law = Nothing
  /\ \E v \in ResInitVals, f \in ResMapFns, g \in ResMapFns :
       /\ v.k # "error"
       /\ LET c == Result_of(v)
              first == Result_map(c, f)
          IN law' = [kind |-> "Result", c |-> c, f |-> f, g |-> g,
                     chained |-> Result_map(first.x, g).x,
                     fused |-> Result_map(c, Fused(g, f)).x]
  /\ UNCHANGED <<prog, optVars, resVars, effVars, curVars, comp, mat, isCall, memoized, part>>

-----------------------------------------------------------------------------
(* memoize(fn).  The cache is a Map from the serialized argument list to    *)
(* the result; a result is a reference: the object made by one invocation   *)
(* of fn.                                                                   *)

RECURSIVE Stringify(_, _)
RECURSIVE JoinElems(_)
RECURSIVE JoinProps(_, _)

\* JSON.stringify(x), x being an element of an array when inArray: the text,
\* undefined when x has none, or the TypeError for a big integer
Stringify(x, inArray) ==
  CASE x.k \in {"undefined", "function", "symbol"} ->
         IF inArray THEN Str("null") ELSE Undefined
    [] x.k \in {"null", "nan"} -> Str("null")
    [] x.k = "number" -> Str(IntStr(x.v))
    [] x.k = "boolean" -> Str(IF x.v THEN "true" ELSE "false")
    [] x.k = "string" -> Str("\"" \o x.v \o "\"")
    [] x.k = "bigint" -> Throw("TypeError")
    [] x.k = "array" ->
         LET es == JoinElems(x.v)
         IN IF Threw(es) THEN es ELSE Str("[" \o es.v \o "]")
    [] x.k = "object" ->
         LET ps == JoinProps(x.v, TRUE)
         IN IF Threw(ps) THEN ps ELSE Str("{" \o ps.v \o "}")
    [] x.k \in {"optional", "result"} -> Stringify(Obj(<< <<"x", x.v>> >>), inArray)
    [] OTHER -> Str("{}")

\* the elements of an array, separated by commas
JoinElems(xs) ==
  IF xs = <<>> THEN Str("")
  ELSE LET h == Stringify(Head(xs), TRUE)
           t == JoinElems(Tail(xs))
       IN IF Threw(h) THEN h
          ELSE IF Threw(t) THEN t
          ELSE IF Len(xs) = 1 THEN h
          ELSE Str(h.v \o "," \o t.v)

\* the own properties of an object in their order, those without a text left
\* out; first says that nothing has been written yet
JoinProps(ps, first) ==
  IF ps = <<>> THEN Str("")
  ELSE LET h == Stringify(Head(ps)[2], FALSE)
       IN IF Threw(h) THEN h
          ELSE IF h.k = "undefined" THEN JoinProps(Tail(ps), first)
          ELSE LET t == JoinProps(Tail(ps), FALSE)
               IN IF Threw(t) THEN t
                  ELSE Str((IF first THEN "" ELSE ",") \o "\"" \o Head(ps)[1]
                           \o "\":" \o h.v \o t.v)

\* The wrapped function of the run: it makes a new object on every
\* invocation, the n-th in the run, and throws on the argument 'bad'.
MemoFn(n, args) ==
  IF args # <<>> /\ args[1] = Str("bad") THEN Throw("Error")
  ELSE [k |-> "ref", id |-> n, val |-> Obj(<< <<"key", Arr(args)>> >>)]

\* cache.has(key) and cache.get(key), the cache being its entries in order
CacheHas(cache, key) == \E i \in 1..Len(cache) : cache[i][1] = key
CacheGet(cache, key) == cache[CHOOSE i \in 1..Len(cache) : cache[i][1] = key][2]

\* Memoized storing what an invocation of fn produced before looking at it,
\* an error thrown included
Memoized_CacheThrow(cache, n, args) ==
  LET key == Stringify(Arr(args), FALSE)
  IN IF Threw(key) THEN [ret |-> key, cache |-> cache, invoked |-> FALSE]
     ELSE IF CacheHas(cache, key.v)
       THEN [ret |-> CacheGet(cache, key.v), cache |-> cache, invoked |-> FALSE]
     ELSE LET r == MemoFn(n + 1, args)
          IN [ret |-> r, cache |-> Append(cache, <<key.v, r>>), invoked |-> TRUE]

\* the function memoize returns, called with args after n invocations of fn
Memoized(cache, n, args) ==
  LET key == Stringify(Arr(args), FALSE)
  IN IF Threw(key) THEN [ret |-> key, cache |-> cache, invoked |-> FALSE]
     ELSE IF CacheHas(cache, key.v)
       THEN [ret |-> CacheGet(cache, key.v), cache |-> cache, invoked |-> FALSE]
     ELSE LET r == MemoFn(n + 1, args)
          IN IF Threw(r) THEN [ret |-> r, cache |-> cache, invoked |-> TRUE]
             ELSE [ret |-> r, cache |-> Append(cache, <<key.v, r>>), invoked |-> TRUE]

MemoArgs == {Num(1), Num(2), Str("1"), Str("bad"), Undefined, Null, BigI(1),
             Fn("identity"), Fn("constOne"),
             Obj(<< <<"a", Num(1)>>, <<"b", Num(2)>> >>),
             Obj(<< <<"b", Num(2)>>, <<"a", Num(1)>> >>)}
MemoArgLists == {<<>>} \cup {<<a>> : a \in MemoArgs}

\* memoize(fn): the cache is empty
Memoize ==
  /\ prog = "memoize" /\ memoized = Nothing
  /\ memoized' = [cache |-> <<>>, n |-> 0, calls |-> <<>>]
  /\ UNCHANGED <<prog, optVars, resVars, effVars, curVars, comp, mat, isCall, law, part>>

\* the memoized function is called
MemoizedCall ==
  /\ prog = "memoize" /\ memoized # Nothing /\ Len(memoized.calls) < MaxMemoCalls
  /\ \E args \in MemoArgLists :
       LET r == Memoized(memoized.cache, memoized.n, args)
       IN memoized' = [cache |-> r.cache,
                   n |-> IF r.invoked THEN memoized.n + 1 ELSE memoized.n,
                   calls |-> Append(memoized.calls,
                               [args |-> args, ret |-> r.ret, invoked |-> r.invoked])]
  /\ UNCHANGED <<prog, optVars, resVars, effVars, curVars, comp, mat, isCall, law, part>>

-----------------------------------------------------------------------------
(* List.partition.  The array of partitions is a JavaScript array: setting  *)
(* an index beyond its length leaves holes in between.                      *)

Hole == [k |-> "hole"]

PartFns == {"isEven", "mod2", "mod3", "evenIndex"}
PartVals == {Num(1), Num(2), Num(3), Num(4)}

\* fn(x, i) for a supplied function: a boolean or a number
PartFn(f, x, i) ==
  CASE f = "isEven" -> Bool(x.v % 2 = 0)
    [] f = "mod2" -> Num(x.v % 2)
    [] f = "mod3" -> Num(x.v % 3)
    [] OTHER -> Bool(i % 2 = 0)

\* xss[j], j counted from 0: undefined at a hole and beyond the length
ArrGet(xss, j) ==
  IF j + 1 <= Len(xss) /\ xss[j + 1].k # "hole" THEN xss[j + 1] ELSE Undefined

\* xss[j] = v
ArrSet(xss, j, v) ==
  [m \in 1..(IF j + 1 > Len(xss) THEN j + 1 ELSE Len(xss)) |->
     IF m = j + 1 THEN v ELSE IF m <= Len(xss) THEN xss[m] ELSE Hole]

\* Partition_reducer putting x in front of its partition
Partition_reducer_Prepend(f, xss, x, i) ==
  LET r == PartFn(f, x, i)
      j == IF r.k = "boolean" /\ r.v THEN 0
           ELSE IF r.k = "boolean" /\ ~r.v THEN 1 ELSE r.v
      old == IF Truthy(ArrGet(xss, j)) THEN ArrGet(xss, j) ELSE Arr(<<>>)
  IN ArrSet(xss, j, Arr(<<x>> \o old.v))

\* the function given to reduce
Partition_reducer(f, xss, x, i) ==
  LET r == PartFn(f, x, i)
      j == IF r.k = "boolean" /\ r.v THEN 0
           ELSE IF r.k = "boolean" /\ ~r.v THEN 1 ELSE r.v
      old == IF Truthy(ArrGet(xss, j)) THEN ArrGet(xss, j) ELSE Arr(<<>>)
  IN ArrSet(xss, j, Arr(old.v \o <<x>>))

RECURSIVE Partition_reduce(_, _, _, _)
\* xs.reduce(reducer, []) from the element of index i on, xss accumulated
Partition_reduce(f, xs, i, xss) ==
  IF i >= Len(xs) THEN xss
  ELSE Partition_reduce(f, xs, i + 1, Partition_reducer(f, xss, xs[i + 1], i))

\* partition(fn, xs): the value returned and the array xs after the call
Partition(f, xs) ==
  IF TypeOf(xs) = "undefined" THEN [out |-> Fn("partition.ap"), xs |-> xs]
  ELSE [out |-> Arr(Partition_reduce(f, xs.v, 0, <<>>)), xs |-> xs]

PartitionCall ==
  /\ prog = "partition" /\ part = Nothing
  /\ \E f \in PartFns, n \in 0..MaxXs : \E xs \in [1..n -> PartVals] :
       LET r == Partition(f, Arr(xs))
       IN part' = [fn |-> f, given |-> Arr(xs), xs |-> r.xs, out |-> r.out]
  /\ UNCHANGED <<prog, optVars, resVars, effVars, curVars, comp, mat, isCall,
                 law, memoized>>

-----------------------------------------------------------------------------
Programs == {"Optional", "Result", "Effect", "curry", "compose", "match", "is",
             "mapLaw", "memoize", "partition"}

Init ==
  /\ prog \in Programs
  /\ optional = Nothing /\ optOp = NoOp /\ optLen = 0 /\ optHeap = NoHeap
  /\ result = Nothing /\ resOp = NoOp /\ resLen = 0 /\ resHeap = NoHeap
  /\ effect = <<>> /\ effLog = <<>> /\ effCalls = <<>>
  /\ curried = Nothing /\ curLog = <<>>
  /\ comp = Nothing
  /\ mat = Nothing
  /\ isCall = Nothing
  /\ law = Nothing
  /\ memoized = Nothing
  /\ part = Nothing

Next ==
  \/ OptionalOf \/ OptionalMap \/ OptionalApply \/ OptionalBind
  \/ OptionalConcat \/ OptionalMatch
  \/ ResultOf \/ ResultMap \/ ResultApply \/ ResultBind
  \/ ResultConcat \/ ResultMatch
  \/ EffectOf \/ EffectMap \/ EffectCall \/ EffectResolve \/ EffectThen
  \/ Curry \/ CurriedCall \/ PartialCall
  \/ Compose \/ ComposedCall
  \/ MatchCall
  \/ IsCall
  \/ OptionalMapLaw \/ ResultMapLaw
  \/ Memoize \/ MemoizedCall
  \/ PartitionCall

Spec == Init /\ [][Next]_vars

-----------------------------------------------------------------------------
(* The properties.                                                          *)

Absent(x) == x.k \in {"undefined", "null"}

\* C1: map(f), bind(f) and apply(Optional.of(f)) on an absent Optional return
\* an absent Optional and never invoke f.
C1_OptionalShortCircuit ==
  (optOp.op \in {"map", "bind", "apply"} /\ Absent(optOp.recv))
    => (Absent(optional) /\ optOp.calls = <<>>)

\* C2: map, bind and apply on a Result that holds an error return a Result
\* holding that same error and invoke none of the supplied functions, at
\* every position of a chain.
C2_ResultShortCircuit ==
  (resOp.op \in {"map", "bind", "apply"} /\ resOp.recv.k = "error")
    => (result = resOp.recv /\ resOp.calls = <<>>)

C2_Witness ==
  resLen >= 2 /\ resOp.op \in {"map", "bind", "apply"} /\ resOp.recv.k = "error"
    /\ resOp.arg.k \in {"function", "result"}

\* C3: Effect.of and map invoke neither the wrapped callable nor a
\* transformation; while call has not been invoked nothing has run.
C3_EffectLaziness ==
  /\ effLog = <<>>
  /\ \A c \in 1..Len(effCalls) : effCalls[c].log # <<>>

C3_Witness ==
  effCalls = <<>> /\ effect # <<>> /\ Len(Last(effect).maps) >= 2

RECURSIVE ExpectedStages(_, _)
ExpectedStages(ms, x) ==
  IF ms = <<>> THEN <<>>
  ELSE << <<Head(ms), x>> >> \o ExpectedStages(Tail(ms), Call(Head(ms), x))

ExpectedLog(c) ==
  LET e == effect[effCalls[c].eff]
  IN << <<e.base, Arr(effCalls[c].args)>> >>
       \o ExpectedStages(e.maps, BaseValue(e.base, effCalls[c].args))

IsPrefix(s, t) == Len(s) <= Len(t) /\ s = SubSeq(t, 1, Len(s))

\* C4: each call invokes the wrapped callable once with args and then every
\* registered transformation once, in registration order, each on the
\* previous stage's result; while a deferred result is outstanding the
\* invocations made so far are the first of that sequence.
C4_EffectOrdering ==
  \A c \in 1..Len(effCalls) :
    IF effCalls[c].status \in {"pending", "resolved"}
    THEN IsPrefix(effCalls[c].log, ExpectedLog(c))
    ELSE effCalls[c].log = ExpectedLog(c)

RECURSIVE Flatten(_)
Flatten(ss) == IF ss = <<>> THEN <<>> ELSE Head(ss) \o Flatten(Tail(ss))

\* C5: along every chain of partial applications the original function is
\* invoked exactly once, at the first step where the number of arguments
\* supplied so far reaches the arity, with all of them in the order
\* supplied; every earlier step returns a function and invokes nothing.
C5_CurryAccumulation ==
  curried # Nothing =>
    /\ \A i \in 1..Len(curried.partials) :
         /\ Len(Flatten(curried.partials[i].steps)) < curried.arity
         /\ curried.partials[i].args = Flatten(curried.partials[i].steps)
    /\ Len(curLog) + Len(curried.partials) = curried.n
    /\ curried.last # Nothing =>
         LET st == curried.last.steps
         IN /\ curried.last.invoked <=> Len(Flatten(st)) >= curried.arity
            /\ Len(st) > 1 => Len(Flatten(Front(st))) < curried.arity
            /\ curried.last.invoked => curLog[Len(curLog)].args = Flatten(st)

C5_Witness ==
  /\ curried # Nothing /\ curried.last # Nothing
  /\ curried.last.invoked /\ Len(curried.last.steps) >= 2
  /\ Len(Flatten(curried.last.steps)) > curried.arity
  /\ curried.arity >= 2

RECURSIVE Nest(_, _)
\* f1(f2(...fn(x)))
Nest(fns, x) == IF fns = <<>> THEN x ELSE Call(Head(fns), Nest(Tail(fns), x))

C7_MatchFallbackNeverRaises ==
  (mat # Nothing /\ \E i \in 1..Len(mat.b.keys) : mat.b.keys[i] = "_")
    => ~Threw(mat.out)

\* the name of the runtime type of x
TypeName(x) ==
  CASE x.k \in {"number", "nan"} -> "Number"
    [] x.k = "bigint" -> "BigInt"
    [] x.k = "string" -> "String"
    [] x.k = "boolean" -> "Boolean"
    [] x.k = "symbol" -> "Symbol"
    [] x.k = "function" -> "Function"
    [] x.k = "array" -> "Array"
    [] x.k = "optional" -> "Optional"
    [] OTHER -> "Object"

\* the keys that match x: strictly equal to x, or naming the runtime type of
\* a non-absent x, or `_`
KeyOf(x, key) ==
  \/ StrictEqKey(x, key)
  \/ ~Absent(x) /\ (key = TypeName(x) \/ (key = "Functor" /\ x.k \in {"optional", "array"}))
  \/ key = "_"

\* C8: when no key matches the value and there is no `_` entry, match raises
\* and invokes no handler.
C8_MatchNoMatchRaises ==
  (mat # Nothing /\ \A i \in 1..Len(mat.b.keys) : ~KeyOf(mat.x, mat.b.keys[i]))
    => (Threw(mat.out) /\ mat.calls = <<>>)

\* C9: is(t, x) with two arguments returns a boolean and never throws.
C9_IsTotal == isCall # Nothing => isCall.out.k = "boolean"

\* the value of an own property of a plain object, and its keys
PropVal(o, key) == o.v[CHOOSE i \in 1..Len(o.v) : o.v[i][1] = key][2]
PropKeys(o) == {o.v[i][1] : i \in 1..Len(o.v)}

\* C10: concat on a present Optional holding v with an argument x of the
\* same kind holds v + x for numbers and big integers, v followed by x for
\* strings and arrays, v AND x for booleans, and for plain objects the merge
\* in which the keys of x override those of v.
C10_ConcatDispatch ==
  (optOp.op = "concat" /\ ~Absent(optOp.recv) /\ optOp.recv.k = optOp.arg.k) =>
    LET v == optOp.recv
        x == optOp.arg
    IN CASE v.k = "number" -> optional = Num(v.v + x.v)
         [] v.k = "bigint" -> optional = BigI(v.v + x.v)
         [] v.k = "string" -> optional = Str(v.v \o x.v)
         [] v.k = "boolean" -> optional = Bool(v.v /\ x.v)
         [] v.k = "array" -> optional = Arr(v.v \o x.v)
         [] v.k = "object" ->
              /\ optional.k = "object"
              /\ PropKeys(optional) = PropKeys(v) \cup PropKeys(x)
              /\ Len(optional.v) = Cardinality(PropKeys(optional))
              /\ \A key \in PropKeys(optional) :
                   PropVal(optional, key) =
                     IF key \in PropKeys(x) THEN PropVal(x, key) ELSE PropVal(v, key)
         [] OTHER -> TRUE

C10_Witness ==
  /\ optOp.op = "concat" /\ optOp.recv.k = "object" /\ optOp.arg.k = "object"
  /\ \E key \in PropKeys(optOp.recv) \cap PropKeys(optOp.arg) :
       PropVal(optOp.recv, key) # PropVal(optOp.arg, key)

\* C11: concat never throws: for every Optional or Result, present or
\* absent, and every argument x of any runtime type, concat(x) returns a
\* container without raising.
C11_ConcatNeverThrows ==
  /\ optOp.op = "concat" => ~Threw(optOp.ret)
  /\ resOp.op = "concat" => ~Threw(resOp.ret)

\* C12: concat(x) on a Result that holds an error returns a Result holding
\* exactly x; the error is not combined with x.
C12_ResultConcatReplaces ==
  (resOp.op = "concat" /\ resOp.recv.k = "error")
    => (~Threw(resOp.ret) /\ result = resOp.arg)

\* C13: r.apply(other), where other holds an error, returns a Result in the
\* error state and invokes no function.
C13_ResultApplyErrorArg ==
  (resOp.op = "apply" /\ resOp.arg.v.k = "error")
    => (result.k = "error" /\ resOp.calls = <<>>)

\* C14: Result.of(v) is in the error state exactly when v is an error value;
\* match invokes Error(e) only when the held value is an error and
\* Success(v) for every other held value, undefined, null, 0 and false
\* included, and exactly one branch is invoked.
C14_ResultOfAndMatch ==
  /\ resOp.op = "of" =>
       (Truthy(Is(Ctor("Error"), result)) <=> resOp.arg.k = "error")
  /\ resOp.op = "match" =>
       resOp.calls = << IF resOp.recv.k = "error" THEN <<"Error", resOp.recv>>
                        ELSE <<"Success", resOp.recv>> >>

\* C15: Optional.of(v) is absent exactly when v is undefined or null and
\* otherwise holds v; on a present Optional holding v, map(f) invokes f
\* exactly once, with v, and returns an absent Optional when f(v) is
\* undefined or null and otherwise a present Optional holding f(v); bind(f)
\* does the same with the value held by the Optional that f(v) returns.
C15_OptionalNormalization ==
  /\ optOp.op = "of" =>
       /\ Absent(optional) <=> Absent(optOp.arg)
       /\ ~Absent(optOp.arg) => optional = optOp.arg
  /\ (optOp.op \in {"map", "bind"} /\ ~Absent(optOp.recv)) =>
       LET y == IF optOp.op = "map" THEN Call(optOp.arg.v, optOp.recv)
                ELSE Call(optOp.arg.v, optOp.recv).v
       IN /\ optOp.calls = << <<optOp.arg.v, optOp.recv>> >>
          /\ Absent(optional) <=> Absent(y)
          /\ ~Absent(y) => optional = y

C15_Witness ==
  /\ optOp.op \in {"map", "bind"} /\ optLen >= 2
  /\ optOp.recv.k = "number" /\ optOp.recv.v = 0
  /\ optional = optOp.recv

\* C16: match({Some, None}) invokes None() and not Some when the Optional is
\* absent, Some(value) and not None when it is present; exactly one branch
\* is invoked, exactly once, and its result is returned.
C16_OptionalMatch ==
  optOp.op = "match" =>
    IF Absent(optOp.recv)
    THEN optOp.calls = << <<"None">> >> /\ optOp.ret = Str("none")
    ELSE optOp.calls = << <<"Some", optOp.recv>> >> /\ optOp.ret = optOp.recv

C16_Witness ==
  optOp.op = "match" /\ optOp.recv = Null /\ optOp.ret = Str("none")

C18_ContainersImmutable ==
  [][/\ Len(optHeap'.objs) >= Len(optHeap.objs)
     /\ \A i \in 1..Len(optHeap.objs) : optHeap'.objs[i] = optHeap.objs[i]
     /\ Len(resHeap'.objs) >= Len(resHeap.objs)
     /\ \A i \in 1..Len(resHeap.objs) : resHeap'.objs[i] = resHeap.objs[i]
     /\ Len(effect') >= Len(effect)
     /\ \A i \in 1..Len(effect) : effect'[i] = effect[i]]_vars

C18_Witness ==
  /\ optOp.op = "apply" /\ optOp.calls # <<>>
  /\ Len(optHeap.objs) = 3 /\ optHeap.cur = 3
  /\ optHeap.objs[1] = optOp.recv /\ optHeap.objs[3] = optional
  /\ optional # optOp.recv

RECURSIVE StructEq(_, _)
\* a and b are structurally equal: the same primitive or reference, arrays
\* of structurally equal elements, or objects with the same keys, in any
\* order, and structurally equal values
StructEq(a, b) ==
  /\ a.k = b.k
  /\ CASE a.k = "array" ->
            /\ Len(a.v) = Len(b.v)
            /\ \A i \in 1..Len(a.v) : StructEq(a.v[i], b.v[i])
        [] a.k = "object" ->
            /\ PropKeys(a) = PropKeys(b)
            /\ \A key \in PropKeys(a) : StructEq(PropVal(a, key), PropVal(b, key))
        [] OTHER -> a = b

\* C19: fn returns at most once per serialized argument list, and every
\* repeat call with arguments structurally equal to those of an earlier
\* call that returned gives back the very same reference without invoking
\* fn again.
C19_MemoizeCaching ==
  memoized # Nothing =>
    \A i \in 1..Len(memoized.calls) : \A j \in (i + 1)..Len(memoized.calls) :
      LET a == memoized.calls[i]
          b == memoized.calls[j]
      IN /\ (a.invoked /\ b.invoked /\ ~Threw(a.ret) /\ ~Threw(b.ret))
              => Stringify(Arr(a.args), FALSE) # Stringify(Arr(b.args), FALSE)
         /\ (StructEq(Arr(a.args), Arr(b.args)) /\ ~Threw(a.ret))
              => (b.ret = a.ret /\ ~b.invoked)

\* the index of the partition that element i of xs belongs to
PartIndex(f, xs, i) ==
  LET r == PartFn(f, xs[i], i - 1)
  IN IF r.k = "boolean" THEN (IF r.v THEN 0 ELSE 1) ELSE r.v

\* the elements of xs that belong to partition j, in the order of xs
PartOf(f, xs, j) ==
  LET P == {i \in 1..Len(xs) : PartIndex(f, xs, i) = j}
  IN [m \in 1..Cardinality(P) |->
        xs[CHOOSE i \in P : Cardinality({h \in P : h <= i}) = m]]

\* C20: partition(fn, xs) places each element of xs in exactly one
\* partition, index 0 when fn(x, i) is true, 1 when it is false, n when it
\* is the number n, in the relative order of xs; there is no partition
\* beyond the largest index used; partition of an empty array is an empty
\* array; xs is not modified.
C20_Partition ==
  part # Nothing =>
    LET xs == part.given.v
        used == {PartIndex(part.fn, xs, i) : i \in 1..Len(xs)}
    IN /\ part.out.k = "array"
       /\ xs = <<>> => part.out.v = <<>>
       /\ \A j \in 0..(Len(part.out.v) - 1) :
            /\ ArrGet(part.out.v, j).k = "undefined" <=> j \notin used
            /\ j \in used => ArrGet(part.out.v, j) = Arr(PartOf(part.fn, xs, j))
       /\ \A j \in used : j < Len(part.out.v)
       /\ part.xs = part.given

C20_Witness ==
  /\ part # Nothing /\ part.fn = "mod3" /\ Len(part.out.v) = 3
  /\ part.out.v[1].k = "hole"
  /\ part.out.v[2].k = "array" /\ Len(part.out.v[2].v) = 2
  /\ part.out.v[2].v[1] # part.out.v[2].v[2]

RECURSIVE ApplyAll(_, _)
\* the transformations ms applied in order, starting from x
ApplyAll(ms, x) == IF ms = <<>> THEN x ELSE ApplyAll(Tail(ms), Call(Head(ms), x))

\* C21: when a mapped Effect is called and the original callable's result is
\* deferred, call returns a deferred value and no transformation is applied
\* before that result completes; when the result is a plain value,
\* undefined included, the transformations are applied synchronously and
\* call returns their result without raising.
C21_EffectMapKinds ==
  \A c \in 1..Len(effCalls) :
    LET call == effCalls[c]
        e == effect[call.eff]
    IN e.maps # <<>> =>
         IF e.base = "asyncBase"
         THEN /\ call.ret.k = "promise"
              /\ call.status = "pending" => call.log = << <<e.base, Arr(call.args)>> >>
         ELSE /\ call.status = "returned"
              /\ call.log = ExpectedLog(c)
              /\ call.ret = ApplyAll(e.maps, BaseValue(e.base, call.args))

\* C23: match uses the first key, in declaration order, that is strictly
\* equal to the value, or names the runtime type of a non-absent value (0,
\* '' and false included), or is `_`; it returns handler(value), invoking
\* the handler exactly once, when the entry is callable and the entry itself
\* otherwise; no later entry is invoked.
C23_MatchSelection ==
  (mat # Nothing /\ \E i \in 1..Len(mat.b.keys) : KeyOf(mat.x, mat.b.keys[i])) =>
    LET first == CHOOSE i \in 1..Len(mat.b.keys) :
                   /\ KeyOf(mat.x, mat.b.keys[i])
                   /\ \A h \in 1..(i - 1) : ~KeyOf(mat.x, mat.b.keys[h])
        e == Entry(mat.b, mat.b.keys[first])
    IN IF mat.b.callable
       THEN /\ mat.calls = << <<e.v, mat.x>> >>
            /\ mat.out.k = "array" /\ mat.out = Arr(<<Str(e.v), mat.x>>)
       ELSE /\ mat.calls = <<>>
            /\ mat.out = e

\* C24: concat(x) on a present Optional or Result, x being of none of the
\* kinds big integer, number, string, boolean, array, plain object or
\* function (a symbol, null, undefined), returns a container holding
\* exactly x.
C24_ConcatFallback ==
  /\ (optOp.op = "concat" /\ ~Absent(optOp.recv)
        /\ optOp.arg.k \in {"symbol", "null", "undefined"})
       => (~Threw(optOp.ret) /\ optional = optOp.arg)
  /\ (resOp.op = "concat" /\ ~Absent(resOp.recv) /\ resOp.recv.k # "error"
        /\ resOp.arg.k \in {"symbol", "null", "undefined"})
       => (~Threw(resOp.ret) /\ result = resOp.arg)

\* C26: for a tag t that is a plain value, such as 'foo' or 42, is(t, x) is
\* true exactly when x is strictly equal to t.
C26_IsLiteralTag ==
  (isCall # Nothing /\ isCall.t.k \in {"string", "number"}) =>
    /\ isCall.out.k = "boolean"
    /\ isCall.out.v = (isCall.x.k = isCall.t.k /\ isCall.x.v = isCall.t.v)

\* C27: on every Optional reachable from Optional.of by map, apply, bind and
\* concat, match never invokes Some with undefined or null, and every
\* operation treats the Optional as absent exactly when the value it holds
\* is undefined or null: match invokes None, concat replaces, and map,
\* apply and bind return an absent Optional without invoking the function.
C27_OptionalAbsentInvariant ==
  /\ optOp.op = "match" =>
       (optOp.calls[1][1] = "None" <=> Absent(optOp.recv))
  /\ (optOp.op = "concat" /\ Absent(optOp.recv)) => optional = optOp.arg
  /\ (optOp.op \in {"map", "apply", "bind"} /\ Absent(optOp.recv))
       => (optOp.calls = <<>> /\ Absent(optional))

\* C30: memoize(fn)(...args) returns a value equal to fn(...args) for every
\* argument list, whatever calls came before, and two argument lists that
\* are not structurally equal never share a cached result.
C30_MemoizeTransparent ==
  memoized # Nothing =>
    \A j \in 1..Len(memoized.calls) :
      LET b == memoized.calls[j]
          direct == MemoFn(0, b.args)
      IN /\ Threw(b.ret) <=> Threw(direct)
         /\ ~Threw(b.ret) =>
              /\ b.ret.val = direct.val
              /\ \A i \in 1..(j - 1) :
                   (~Threw(memoized.calls[i].ret) /\ memoized.calls[i].ret = b.ret)
                     => StructEq(Arr(memoized.calls[i].args), Arr(b.args))

\* C29: when the wrapped function throws, the memoized function propagates
\* the error and leaves the cache as it was, so every call with those
\* arguments invokes the wrapped function again and the results cached for
\* other arguments stay.
C29_MemoizeOnFailure ==
  [][(memoized # Nothing /\ memoized' # Nothing
        /\ Len(memoized'.calls) > Len(memoized.calls)
        /\ Threw(MemoFn(0, Last(memoized'.calls).args)))
     => /\ Last(memoized'.calls).invoked
        /\ Last(memoized'.calls).ret = MemoFn(0, Last(memoized'.calls).args)
        /\ memoized'.cache = memoized.cache]_vars

C29_Witness ==
  /\ memoized # Nothing /\ Len(memoized.calls) = 3
  /\ memoized.calls[1].args = <<Num(1)>>
  /\ memoized.calls[2].args = <<Str("bad")>>
  /\ memoized.calls[3].args = <<Str("bad")>>
  /\ memoized.calls[3].invoked /\ Threw(memoized.calls[3].ret)
  /\ memoized.n = 3 /\ Len(memoized.cache) = 1

\* C25: the receiver of a curried invocation is passed unchanged through
\* every partial application, so the original function is finally invoked
\* with the receiver of the invocation that started the chain.
C25_CurryReceiver ==
  curried # Nothing =>
    /\ \A i \in 1..Len(curried.partials) :
         curried.partials[i].this = curried.partials[i].recv
    /\ (curried.last # Nothing /\ curried.last.invoked)
         => curLog[Len(curLog)].this = curried.last.recv

C25_Witness ==
  /\ curried # Nothing /\ curried.last # Nothing /\ curried.last.invoked
  /\ Len(curried.last.steps) >= 3
  /\ curried.last.recv.k = "object"
  /\ curLog[Len(curLog)].this = curried.last.recv

\* C28: a partial application can be invoked any number of times: no
\* invocation changes the arguments a partial application has accumulated,
\* and each invocation sees exactly the arguments supplied along its own
\* chain followed by its own.
C28_CurryPartialsReusable ==
  [][(curried # Nothing /\ curried' # Nothing) =>
       /\ \A i \in 1..Len(curried.partials) :
            curried'.partials[i] = curried.partials[i]
       /\ Len(curLog') > Len(curLog)
            => curLog'[Len(curLog')].args = Flatten(curried'.last.steps)
       /\ Len(curried'.partials) > Len(curried.partials)
            => Last(curried'.partials).args = Flatten(Last(curried'.partials).steps)]_vars

C28_Witness ==
  /\ curried # Nothing /\ Len(curLog) = 1 /\ Len(curried.partials) = 2
  /\ Len(curried.partials[1].steps) = 1 /\ Len(curried.partials[2].steps) = 2
  /\ curried.partials[2].steps[1] = curried.partials[1].steps[1]
  /\ curried.partials[1].args # <<>>
  /\ curLog[1].args[1] = curried.partials[1].args[1]
  /\ curLog[1].args # curried.partials[2].args
  /\ curried.last.invoked = FALSE

\* C22: with several calls of Effects derived from one base callable in
\* flight, whatever the order in which the deferred results complete and
\* the chained transformations run, each call holds the transformations of
\* its own Effect applied in registration order to its own base result, and
\* has invoked them on its own arguments and intermediate values only.
C22_ConcurrentCalls ==
  \A c \in 1..Len(effCalls) :
    LET call == effCalls[c]
        e == effect[call.eff]
        done == Len(e.maps) - Len(call.todo)
    IN e.base = "asyncBase" =>
         /\ call.ret.k = "promise"
         /\ IsPrefix(call.log, ExpectedLog(c))
         /\ IF call.status = "pending"
            THEN call.val = Nothing /\ call.todo = e.maps /\ Len(call.log) = 1
            ELSE /\ call.status \in {"resolved", "settled"}
                 /\ call.status = "settled" <=> call.todo = <<>>
                 /\ Len(call.log) = done + 1
                 /\ call.val = ApplyAll(SubSeq(e.maps, 1, done),
                                        BaseValue(e.base, call.args))

C22_Witness ==
  /\ Len(effCalls) = 2 /\ effect[1].base = "asyncBase"
  /\ effCalls[1].eff # effCalls[2].eff
  /\ effect[effCalls[1].eff].maps # <<>> /\ effect[effCalls[2].eff].maps # <<>>
  /\ effect[effCalls[1].eff].maps[1] # effect[effCalls[2].eff].maps[1]
  /\ effCalls[1].status = "resolved" /\ effCalls[2].status = "settled"
  /\ effCalls[2].val = ApplyAll(effect[effCalls[2].eff].maps,
                                BaseValue("asyncBase", effCalls[2].args))

====
